---- MODULE Spec2Model ----
(***************************************************************************)
(* A model of the native bridge of pdn-webp (src/WebP/WebP.cpp): the entry *)
(* points WebPSave, GetMetaDataSize, ExtractMetaData and SetMetaData.      *)
(* Every entry point is a synchronous, self-contained call, so one action  *)
(* models one whole call.  The state is a call and what a host can observe *)
(* after it returned:                                                      *)
(*   pc        "call" while the call is pending, "returned" afterwards     *)
(*   op        the entry point called                                      *)
(*   inp       the arguments of the call                                   *)
(*   out       the return code, the out-parameters, the calls made to the  *)
(*             allocator and to memcpy_s, and which codec objects were     *)
(*             obtained and which were handed back to the codec library    *)
(*   injected  <<m>> when inp.data is the container a successful           *)
(*             SetMetaData call returned for the metadata bundle m         *)
(***************************************************************************)
EXTENDS Integers, Sequences, FiniteSets

VARIABLES pc, op, inp, out, injected

vars == <<pc, op, inp, out, injected>>

(***************************************************************************)
(* Bounds of the model.                                                    *)
(***************************************************************************)
MaxWidth == 2
MaxHeight == 2
MaxTransparent == 2
MaxEncodedSize == 2
MaxBlobLen == 2

(***************************************************************************)
(* Codes of the codec library that the bridge names.                       *)
(***************************************************************************)
VP8_ENC_OK == 0
VP8_ENC_ERROR_OUT_OF_MEMORY == 1
VP8_ENC_ERROR_NULL_PARAMETER == 3
VP8_ENC_ERROR_INVALID_CONFIGURATION == 4
VP8_ENC_ERROR_FILE_TOO_BIG == 9
errVersionMismatch == -1

WEBP_MUX_OK == 1
WEBP_MUX_INVALID_ARGUMENT == -1
WEBP_MUX_BAD_DATA == -2
WEBP_MUX_MEMORY_ERROR == -3

WEBP_PRESET_DEFAULT == 0
WEBP_PRESET_PICTURE == 1
WEBP_PRESET_PHOTO == 2
WEBP_PRESET_DRAWING == 3
WEBP_PRESET_ICON == 4
WEBP_PRESET_TEXT == 5

WEBP_HINT_DEFAULT == 0
WEBP_HINT_PICTURE == 1
WEBP_HINT_PHOTO == 2
WEBP_HINT_GRAPH == 3

NULL == "nullptr"
Buffer == "buffer"
Unwritten == "unwritten"
None == "none"

(***************************************************************************)
(* The observable outcome of a call.  Blank is the outcome of a call that  *)
(* did nothing at all.                                                     *)
(*   ret       the value returned ("void" for the two void entry points)   *)
(*   acquired  codec objects initialised or obtained during the call       *)
(*   released  codec objects handed back (WebPMemoryWriterClear,           *)
(*             WebPPictureFree, WebPMuxDelete, WebPDataClear,              *)
(*             WebPDemuxReleaseChunkIterator, WebPDemuxDelete)             *)
(*   codec     <<e>>, e the result of the codec step (the error code of    *)
(*             WebPEncode, the result of WebPMuxAssemble), or <<>>         *)
(*   produced  <<n>>, n the byte size the codec step produced, or <<>>     *)
(*   allocLog  the calls of the output allocator, in order: the size asked *)
(*             for and what was returned                                   *)
(*   outPtr    the out-parameter *output / *outImage                       *)
(*   outBuf    the bytes of the allocated buffer after the call            *)
(*   copyLog   the memcpy_s calls issued                                   *)
(*   cfg       <<c>>, c the configuration handed to the encoder, or <<>>   *)
(*   importer  the pixel import used: "BGRA", "BGRX" or none               *)
(*   reads     the byte offsets of the pixel buffer the alpha scan read    *)
(*   hook      whether the progress hook was registered                    *)
(*   outSize   <<n>>, n the value written to *outSize, or <<>>             *)
(*   outData   the caller's outData buffer after the call                  *)
(*   aborted   the runtime's invalid-parameter handler ended the process   *)
(***************************************************************************)
Blank ==
    [ret |-> "void", acquired |-> {}, released |-> {},
     codec |-> <<>>, produced |-> <<>>, allocLog |-> <<>>,
     outPtr |-> Unwritten, outBuf |-> <<>>, copyLog |-> <<>>,
     cfg |-> <<>>, importer |-> None, reads |-> {}, hook |-> FALSE,
     outSize |-> <<>>, outData |-> <<>>, aborted |-> FALSE]

(***************************************************************************)
(* Pointers to bytes: the null pointer, or a pointer to a byte sequence.   *)
(***************************************************************************)
NullPtr == [null |-> TRUE, bytes |-> <<>>]
Ptr(bytes) == [null |-> FALSE, bytes |-> bytes]

(***************************************************************************)
(* memcpy_s(dest, destsz, src, count) of the C runtime.  A count of 0 is a *)
(* no-op.  A null destination is rejected.  A null source, or a count      *)
(* above destsz, makes the runtime zero the destsz bytes of the            *)
(* destination and raise its invalid-parameter condition.  tail is what    *)
(* lies in memory behind the source, read when count exceeds its length.   *)
(***************************************************************************)
MemcpyS(dest, destsz, src, count, tail) ==
    IF count = 0 THEN [buf |-> dest, invalid |-> FALSE]
    ELSE IF dest.null THEN [buf |-> dest, invalid |-> TRUE]
    ELSE IF src.null \/ destsz < count
         THEN [buf |-> Ptr([i \in 1..Len(dest.bytes) |->
                              IF i <= destsz THEN 0 ELSE dest.bytes[i]]),
               invalid |-> TRUE]
         ELSE [buf |-> Ptr([i \in 1..Len(dest.bytes) |->
                              IF i > count THEN dest.bytes[i]
                              ELSE IF i <= Len(src.bytes) THEN src.bytes[i]
                              ELSE tail[i - Len(src.bytes)]]),
               invalid |-> FALSE]

AllocCall(size, allocOk) ==
    [size |-> size, returned |-> IF allocOk THEN Buffer ELSE NULL]

CopyRecord(dest, destsz, src, count) ==
    [destNull |-> dest.null, destsz |-> destsz, srcNull |-> src.null, count |-> count]

(***************************************************************************)
(* Pixel buffers: 4 bytes per pixel (B, G, R, A), rows stride bytes apart. *)
(* data is the sequence of the height*stride bytes; the byte at offset o   *)
(* is data[o + 1].                                                         *)
(***************************************************************************)
ByteAt(data, offset) == data[offset + 1]

\* The scan of row y from column x on, ptr being the offset of pixel (x, y).
RECURSIVE ScanRow(_, _, _, _, _)
ScanRow(data, width, ptr, x, seen) ==
    IF x >= width THEN [found |-> FALSE, reads |-> seen]
    ELSE IF ByteAt(data, ptr + 3) < 255
         THEN [found |-> TRUE, reads |-> seen \cup {ptr + 3}]
         ELSE ScanRow(data, width, ptr + 4, x + 1, seen \cup {ptr + 3})

\* The scan of the rows y .. height-1, rows being pitch bytes apart.
RECURSIVE ScanRows(_, _, _, _, _, _)
ScanRows(data, width, height, pitch, y, seen) ==
    IF y >= height THEN [found |-> FALSE, reads |-> seen]
    ELSE LET row == ScanRow(data, width, y * pitch, 0, seen)
         IN  IF row.found THEN row
             ELSE ScanRows(data, width, height, pitch, y + 1, row.reads)

HasTransparency_TightRows(data, width, height, stride) ==
    ScanRows(data, width, height, 4 * width, 0, {})

HasTransparency(data, width, height, stride) ==
    ScanRows(data, width, height, stride, 0, {})

(***************************************************************************)
(* The encoder configuration.  WebPConfigPreset fills in the library's     *)
(* defaults, then the preset's values (a value that names no preset keeps  *)
(* the defaults), and fails only when the result does not validate: for a  *)
(* quality outside 0..100.                                                 *)
(***************************************************************************)
Presets == WEBP_PRESET_DEFAULT..WEBP_PRESET_TEXT

DefaultConfig(quality) ==
    [quality |-> quality, method |-> 4, target_size |-> 0, sns_strength |-> 50,
     filter_strength |-> 60, filter_sharpness |-> 0, filter_type |-> 1,
     lossless |-> 0, image_hint |-> WEBP_HINT_DEFAULT, thread_level |-> 0]

PresetConfig(preset, quality) ==
    LET d == DefaultConfig(quality)
    IN  CASE preset = WEBP_PRESET_PICTURE ->
               [d EXCEPT !.sns_strength = 80, !.filter_sharpness = 4, !.filter_strength = 35]
          [] preset = WEBP_PRESET_PHOTO ->
               [d EXCEPT !.sns_strength = 80, !.filter_sharpness = 3, !.filter_strength = 30]
          [] preset = WEBP_PRESET_DRAWING ->
               [d EXCEPT !.sns_strength = 25, !.filter_sharpness = 6, !.filter_strength = 10]
          [] preset = WEBP_PRESET_ICON ->
               [d EXCEPT !.sns_strength = 0, !.filter_strength = 0]
          [] preset = WEBP_PRESET_TEXT ->
               [d EXCEPT !.sns_strength = 0, !.filter_strength = 0]
          [] OTHER -> d

WebPConfigPreset(preset, quality) ==
    quality >= 0 /\ quality <= 100

ValidConfig(c) ==
    /\ c.method \in 0..6
    /\ c.filter_strength \in 0..100
    /\ c.filter_type \in 0..1
    /\ c.filter_sharpness \in 0..7
    /\ c.sns_strength \in 0..100
    /\ c.target_size >= 0

\* The content hint of a lossless encode (the switch of lines 90-101).
LosslessHint(preset, hint) ==
    CASE preset = WEBP_PRESET_PHOTO -> WEBP_HINT_PHOTO
      [] preset = WEBP_PRESET_PICTURE -> WEBP_HINT_PICTURE
      [] preset = WEBP_PRESET_DRAWING -> WEBP_HINT_GRAPH
      [] OTHER -> hint

FilterStrengthHonoured_AllButIcon(preset) == preset # WEBP_PRESET_ICON

\* The presets for which a lossy encode takes the caller's filter strength.
FilterStrengthHonoured(preset) == preset < WEBP_PRESET_ICON

\* The configuration WebPSave hands to WebPEncode (lines 82-117).
TuneConfig(params) ==
    LET c0 == PresetConfig(params.preset, params.quality)
        c1 == [c0 EXCEPT !.method = params.method, !.thread_level = 1]
    IN  IF params.quality = 100
        THEN [c1 EXCEPT !.lossless = 1,
                        !.image_hint = LosslessHint(params.preset, c1.image_hint)]
        ELSE LET c2 == IF params.fileSize > 0
                       THEN [c1 EXCEPT !.target_size = params.fileSize] ELSE c1
                 c3 == IF FilterStrengthHonoured(params.preset)
                       THEN [c2 EXCEPT !.filter_strength = params.filterStrength] ELSE c2
             IN  [c3 EXCEPT !.filter_type = params.filterType,
                            !.filter_sharpness = params.sharpness,
                            !.sns_strength = params.noiseShaping]

(***************************************************************************)
(* WebPSave.  inp is the call's arguments; env is what the codec library   *)
(* and the allocator do during the call:                                   *)
(*   pictureInit  WebPPictureInit succeeds                                 *)
(*   importOk     the pixel import finds the memory it needs               *)
(*   encodeErr    VP8_ENC_OK, or the error a valid encode ends with        *)
(*   mem          the bytes the encoder wrote to the memory writer         *)
(*   allocOk      the allocator returns a buffer (not null)                *)
(***************************************************************************)
SaveNullParameter_AfterInit ==
    [Blank EXCEPT !.ret = VP8_ENC_ERROR_NULL_PARAMETER, !.acquired = {"config", "pic"}]

\* Lines 68-71: the allocator is null.
SaveNullParameter == [Blank EXCEPT !.ret = VP8_ENC_ERROR_NULL_PARAMETER]

\* Lines 77-80: the configuration or the picture could not be initialised.
SaveVersionMismatch(presetOk) ==
    [Blank EXCEPT !.ret = errVersionMismatch,
                  !.acquired = IF presetOk THEN {"config"} ELSE {}]

\* The pixel import of the codec library: it needs positive dimensions.
WebPPictureImport(width, height, importOk) ==
    width > 0 /\ height > 0 /\ importOk

\* WebPEncode: the error code it leaves in pic.error_code.
WebPEncode(cfg, encodeErr) ==
    IF ~ValidConfig(cfg) THEN VP8_ENC_ERROR_INVALID_CONFIGURATION ELSE encodeErr

\* Lines 151-159: the encode succeeded; the output goes to the caller.
SaveDeliver(r, mem, allocOk) ==
    LET size == Len(mem)
        dest == IF allocOk THEN Ptr([i \in 1..size |-> 0]) ELSE NullPtr
    IN  IF ~dest.null
        THEN LET cp == MemcpyS(dest, size, Ptr(mem), size, <<>>)
             IN  [r EXCEPT !.allocLog = Append(r.allocLog, AllocCall(size, allocOk)),
                           !.outPtr = Buffer,
                           !.copyLog = Append(r.copyLog,
                                              CopyRecord(dest, size, Ptr(mem), size)),
                           !.outBuf = cp.buf.bytes]
        ELSE [r EXCEPT !.allocLog = Append(r.allocLog, AllocCall(size, allocOk)),
                       !.outPtr = NULL,
                       !.ret = VP8_ENC_ERROR_OUT_OF_MEMORY]

SaveEncodeFailed_AsOutOfMemory(r, code) ==
    [r EXCEPT !.ret = VP8_ENC_ERROR_OUT_OF_MEMORY]

\* Line 163: the encode failed.
SaveEncodeFailed(r, code) == [r EXCEPT !.ret = code]

\* Lines 165-166.
SaveRelease(r) == [r EXCEPT !.released = r.released \cup {"wrt", "pic"}]

WebPSave(i, env) ==
    IF i.allocator = NULL THEN SaveNullParameter
    ELSE IF ~WebPConfigPreset(i.params.preset, i.params.quality)
         THEN SaveVersionMismatch(FALSE)
    ELSE IF ~env.pictureInit THEN SaveVersionMismatch(TRUE)
    ELSE
    LET cfg  == TuneConfig(i.params)
        scan == HasTransparency(i.bitmap.data, i.bitmap.width, i.bitmap.height,
                                i.bitmap.stride)
        r0   == [Blank EXCEPT !.acquired = {"config", "pic", "wrt"},
                              !.reads = scan.reads,
                              !.importer = IF scan.found THEN "BGRA" ELSE "BGRX"]
    IN  IF ~WebPPictureImport(i.bitmap.width, i.bitmap.height, env.importOk)
        THEN [r0 EXCEPT !.ret = VP8_ENC_ERROR_OUT_OF_MEMORY]
        ELSE LET r1   == [r0 EXCEPT !.acquired = r0.acquired \cup {"pixels"},
                                    !.hook = (i.callback # NULL),
                                    !.ret = 0]
                 code == WebPEncode(cfg, env.encodeErr)
                 r2   == [r1 EXCEPT !.cfg = <<cfg>>,
                                    !.codec = <<code>>,
                                    !.produced = IF code = VP8_ENC_OK
                                                 THEN <<Len(env.mem)>> ELSE <<>>]
             IN  SaveRelease(IF code = VP8_ENC_OK
                             THEN SaveDeliver(r2, env.mem, env.allocOk)
                             ELSE SaveEncodeFailed(r2, code))

(***************************************************************************)
(* Containers.  A container is what the mux and demux interfaces of the    *)
(* codec library see in a buffer of image bytes:                           *)
(*   form       "webp" (a well-formed RIFF container), "bitstream" (a bare *)
(*              VP8/VP8L bitstream), "corrupt" (a RIFF header over         *)
(*              unreadable contents) or "null" (no bytes at all)           *)
(*   flags      the feature flags of the container's header                *)
(*   chunks     the auxiliary chunks in file order, each a four-character  *)
(*              tag and a payload                                          *)
(*   imageSize  the byte size of the image payload                         *)
(***************************************************************************)
MetaDataTypes == {"ColorProfile", "EXIF", "XMP"}
FormatFlags == {"ICCP_FLAG", "EXIF_FLAG", "XMP_FLAG"}

Chunk(tag, bytes) == [tag |-> tag, bytes |-> bytes]

\* The feature flag the mux sets for a chunk tag it knows ({} for others).
FlagsOfTag(tag) ==
    CASE tag = "ICCP" -> {"ICCP_FLAG"}
      [] tag = "EXIF" -> {"EXIF_FLAG"}
      [] tag = "XMP " -> {"XMP_FLAG"}
      [] OTHER -> {}

WithoutTag(chunks, tag) == LET Keep(c) == c.tag # tag IN SelectSeq(chunks, Keep)
WithTag(chunks, tag) == LET Keep(c) == c.tag = tag IN SelectSeq(chunks, Keep)

\* WebPDemux: only a well-formed container opens.
WebPDemux(data) == data.form = "webp"

\* The chunks the demultiplexer keeps: a metadata chunk is stored only when
\* the header carries its flag.
DemuxChunks(data) ==
    LET Keep(c) == FlagsOfTag(c.tag) \subseteq data.flags /\ FlagsOfTag(c.tag) # {}
    IN  SelectSeq(data.chunks, Keep)

\* WebPDemuxGetChunk(demux, tag, 1, &iter): iter.chunk afterwards.
WebPDemuxGetChunk(data, tag) ==
    LET found == WithTag(DemuxChunks(data), tag)
    IN  IF Len(found) = 0 THEN [bytes |-> NullPtr, size |-> 0]
        ELSE [bytes |-> Ptr(found[1].bytes), size |-> Len(found[1].bytes)]

ZeroChunk == [bytes |-> NullPtr, size |-> 0]

GetFlag(type) ==
    CASE type = "ColorProfile" -> "ICCP_FLAG"
      [] type = "EXIF" -> "EXIF_FLAG"
      [] type = "XMP" -> "XMP_FLAG"

GetTag_UnpaddedXmp(type) ==
    CASE type = "ColorProfile" -> "ICCP"
      [] type = "EXIF" -> "EXIF"
      [] type = "XMP" -> "XMP"

GetTag(type) ==
    CASE type = "ColorProfile" -> "ICCP"
      [] type = "EXIF" -> "EXIF"
      [] type = "XMP" -> "XMP "

\* Lines 187-207: the switch of GetMetaDataSize.
GetLookup(data, type) ==
    IF GetFlag(type) \in data.flags
    THEN [chunk |-> WebPDemuxGetChunk(data, GetTag(type)), called |-> TRUE]
    ELSE [chunk |-> ZeroChunk, called |-> FALSE]

GetMetaDataSize(data, type) ==
    IF WebPDemux(data)
    THEN LET it == GetLookup(data, type)
         IN  [Blank EXCEPT !.outSize = <<it.chunk.size>>,
                           !.acquired = {"demux"} \cup
                                        (IF it.called THEN {"iter"} ELSE {}),
                           !.released = {"iter", "demux"}]
    ELSE [Blank EXCEPT !.outSize = <<0>>]

ExtractFlag(type) ==
    CASE type = "ColorProfile" -> "ICCP_FLAG"
      [] type = "EXIF" -> "EXIF_FLAG"
      [] type = "XMP" -> "XMP_FLAG"

ExtractTag(type) ==
    CASE type = "ColorProfile" -> "ICCP"
      [] type = "EXIF" -> "EXIF"
      [] type = "XMP" -> "XMP "

\* Lines 231-251: the switch of ExtractMetaData.
ExtractLookup(data, type) ==
    IF ExtractFlag(type) \in data.flags
    THEN [chunk |-> WebPDemuxGetChunk(data, ExtractTag(type)), called |-> TRUE]
    ELSE [chunk |-> ZeroChunk, called |-> FALSE]

(***************************************************************************)
(* ExtractMetaData.  outData is the caller's buffer of outSize bytes.  env *)
(* is what the call meets outside the bridge:                              *)
(*   tail            the bytes lying behind the chunk payload, read when   *)
(*                   outSize exceeds the payload                           *)
(*   handlerReturns  the runtime's invalid-parameter handler returns       *)
(*                   (FALSE: it ends the process)                          *)
(***************************************************************************)
ExtractMetaData(data, outData, outSize, type, env) ==
    IF WebPDemux(data)
    THEN LET it  == ExtractLookup(data, type)
             cp  == MemcpyS(Ptr(outData), outSize, it.chunk.bytes, outSize, env.tail)
             got == {"demux"} \cup (IF it.called THEN {"iter"} ELSE {})
             r   == [Blank EXCEPT !.acquired = got,
                                  !.outData = cp.buf.bytes,
                                  !.copyLog = <<CopyRecord(Ptr(outData), outSize,
                                                           it.chunk.bytes, outSize)>>]
         IN  IF cp.invalid /\ ~env.handlerReturns
             THEN [r EXCEPT !.aborted = TRUE]
             ELSE [r EXCEPT !.released = {"iter", "demux"}]
    ELSE [Blank EXCEPT !.outData = outData]

(***************************************************************************)
(* The multiplexer.  A mux object holds an image payload and a list of     *)
(* chunks.  env.fail names the library call, if any, that runs out of      *)
(* memory during the SetMetaData call.                                     *)
(***************************************************************************)
MuxFailPoints == {"none", "WebPMuxNew", "WebPMuxSetImage", "ICCP", "EXIF", "XMP ",
                  "WebPMuxAssemble"}

\* WebPMuxSetImage(mux, &imageData, 0): only the image payload of the
\* input is taken over, the chunks of an input container are not.
WebPMuxSetImage(image, env) ==
    IF image.form = "null" THEN WEBP_MUX_INVALID_ARGUMENT
    ELSE IF image.form = "corrupt" THEN WEBP_MUX_BAD_DATA
    ELSE IF env.fail = "WebPMuxSetImage" THEN WEBP_MUX_MEMORY_ERROR
    ELSE WEBP_MUX_OK

\* WebPMuxSetChunk(mux, tag, &chunkData, 1) on the chunk list of the mux:
\* a chunk of the same tag is replaced.
WebPMuxSetChunk(chunks, tag, bytes, size, env) ==
    IF bytes.null THEN [error |-> WEBP_MUX_INVALID_ARGUMENT, chunks |-> chunks]
    ELSE IF env.fail = tag THEN [error |-> WEBP_MUX_MEMORY_ERROR, chunks |-> chunks]
    ELSE [error |-> WEBP_MUX_OK,
          chunks |-> Append(WithoutTag(chunks, tag),
                            Chunk(tag, SubSeq(bytes.bytes, 1, size)))]

Padded(n) == n + (n % 2)

RECURSIVE ChunksSize(_)
ChunksSize(chunks) ==
    IF chunks = <<>> THEN 0
    ELSE 8 + Padded(Len(Head(chunks).bytes)) + ChunksSize(Tail(chunks))

RECURSIVE ChunkFlags(_)
ChunkFlags(chunks) ==
    IF chunks = <<>> THEN {}
    ELSE FlagsOfTag(Head(chunks).tag) \cup ChunkFlags(Tail(chunks))

\* WebPMuxAssemble: the container the mux writes and its byte size (the
\* RIFF header, the extended header when there are chunks, the image chunk
\* and the chunks).
WebPMuxAssemble(imageSize, chunks, env) ==
    IF env.fail = "WebPMuxAssemble"
    THEN [error |-> WEBP_MUX_MEMORY_ERROR, size |-> 0,
          data |-> [form |-> "null", flags |-> {}, chunks |-> <<>>, imageSize |-> 0]]
    ELSE [error |-> WEBP_MUX_OK,
          size |-> 12 + (IF chunks = <<>> THEN 0 ELSE 18)
                      + 8 + Padded(imageSize) + ChunksSize(chunks),
          data |-> [form |-> "webp", flags |-> ChunkFlags(chunks),
                    chunks |-> chunks, imageSize |-> imageSize]]

SetTag_UnpaddedXmp(type) ==
    CASE type = "ColorProfile" -> "ICCP"
      [] type = "EXIF" -> "EXIF"
      [] type = "XMP" -> "XMP"

\* The chunk identifiers of lines 288, 296 and 304.
SetTag(type) ==
    CASE type = "ColorProfile" -> "ICCP"
      [] type = "EXIF" -> "EXIF"
      [] type = "XMP" -> "XMP "

\* Lines 262-265: the allocator is null.
SetNullParameter == [Blank EXCEPT !.ret = WEBP_MUX_INVALID_ARGUMENT]

\* Lines 283-305: the three conditional WebPMuxSetChunk calls.
SetChunks(metaData, env) ==
    LET start == [error |-> WEBP_MUX_OK, chunks |-> <<>>]
        icc  == IF metaData.iccProfileSize > 0
                THEN WebPMuxSetChunk(start.chunks, SetTag("ColorProfile"),
                                     metaData.iccProfile, metaData.iccProfileSize, env)
                ELSE start
        exif == IF icc.error = WEBP_MUX_OK /\ metaData.exifSize > 0
                THEN WebPMuxSetChunk(icc.chunks, SetTag("EXIF"),
                                     metaData.exif, metaData.exifSize, env)
                ELSE icc
        xmp  == IF exif.error = WEBP_MUX_OK /\ metaData.xmpSize > 0
                THEN WebPMuxSetChunk(exif.chunks, SetTag("XMP"),
                                     metaData.xmp, metaData.xmpSize, env)
                ELSE exif
    IN  xmp

SetDeliver_NullUnchecked(r, asm, allocOk) ==
    [r EXCEPT !.allocLog = Append(r.allocLog, AllocCall(asm.size, allocOk)),
              !.outPtr = IF allocOk THEN Buffer ELSE NULL,
              !.acquired = r.acquired \cup {"assembled"},
              !.released = r.released \cup {"assembled"},
              !.copyLog = Append(r.copyLog,
                                 [destNull |-> ~allocOk, destsz |-> asm.size,
                                  srcNull |-> FALSE, count |-> asm.size]),
              !.outBuf = IF allocOk THEN <<asm.data>> ELSE <<>>]

\* Lines 315-330: the container was assembled; it goes to the caller.
\* The allocated buffer holds the assembled container once all of its
\* asm.size bytes were copied.
SetDeliver(r, asm, allocOk) ==
    LET r1 == [r EXCEPT !.allocLog = Append(r.allocLog, AllocCall(asm.size, allocOk)),
                        !.outPtr = IF allocOk THEN Buffer ELSE NULL,
                        !.acquired = r.acquired \cup {"assembled"},
                        !.released = r.released \cup {"assembled"}]
    IN  IF ~allocOk
        THEN [r1 EXCEPT !.ret = WEBP_MUX_MEMORY_ERROR]
        ELSE [r1 EXCEPT !.copyLog = Append(r.copyLog,
                                           [destNull |-> FALSE, destsz |-> asm.size,
                                            srcNull |-> FALSE, count |-> asm.size]),
                        !.outBuf = <<asm.data>>]

SetMetaData(image, allocator, metaData, env) ==
    IF allocator = NULL THEN SetNullParameter
    ELSE IF env.fail = "WebPMuxNew" THEN [Blank EXCEPT !.ret = WEBP_MUX_MEMORY_ERROR]
    ELSE
    LET r0  == [Blank EXCEPT !.acquired = {"mux"}]
        img == WebPMuxSetImage(image, env)
    IN  IF img # WEBP_MUX_OK THEN [r0 EXCEPT !.ret = img]
        ELSE LET set == SetChunks(metaData, env)
             IN  IF set.error # WEBP_MUX_OK THEN [r0 EXCEPT !.ret = set.error]
                 ELSE LET asm == WebPMuxAssemble(image.imageSize, set.chunks, env)
                          r1  == [r0 EXCEPT !.released = {"mux"}, !.ret = asm.error,
                                            !.codec = <<asm.error>>,
                                            !.produced = IF asm.error = WEBP_MUX_OK
                                                         THEN <<asm.size>> ELSE <<>>]
                      IN  IF asm.error = WEBP_MUX_OK
                          THEN SetDeliver(r1, asm, env.allocOk)
                          ELSE r1

(***************************************************************************)
(* The inputs of the calls.                                                *)
(***************************************************************************)
Ramp(first, n) == [i \in 1..n |-> first + i - 1]

Pixels(w, h) == (0..(w - 1)) \X (0..(h - 1))

\* The w x h pixel buffer with rows stride bytes apart, whose pixels in T
\* have the alpha byte alpha, whose other pixels are opaque, and whose
\* colour and row-padding bytes are all other.
MakeBitmap(w, h, stride, T, alpha, other) ==
    [width |-> w, height |-> h, stride |-> stride,
     data |-> [i \in 1..(h * stride) |->
                 LET col == (i - 1) % stride
                     row == (i - 1) \div stride
                 IN  IF col >= 4 * w \/ col % 4 # 3 THEN other
                     ELSE IF <<col \div 4, row>> \in T THEN alpha ELSE 255]]

Bitmaps ==
    { MakeBitmap(d[1], d[2], 4 * d[1] + d[3], T, a[1], a[2]) :
        d \in (0..MaxWidth) \X (0..MaxHeight) \X {0, 4},
        T \in { S \in SUBSET Pixels(MaxWidth, MaxHeight) :
                  Cardinality(S) <= MaxTransparent },
        a \in {0, 254} \X {0, 255} }

SmallBitmaps ==
    { MakeBitmap(0, 0, 0, {}, 0, 0), MakeBitmap(1, 1, 4, {}, 0, 0),
      MakeBitmap(1, 1, 4, {<<0, 0>>}, 0, 0) }

PlainParams ==
    [quality |-> 75, preset |-> WEBP_PRESET_DEFAULT, method |-> 4, fileSize |-> 0,
     filterStrength |-> 50, filterType |-> 0, sharpness |-> 2, noiseShaping |-> 40]

AllParams ==
    [quality : {75, 100, 101}, preset : WEBP_PRESET_DEFAULT..(WEBP_PRESET_TEXT + 1),
     method : {4, 7}, fileSize : {0, 1000}, filterStrength : {20, 50},
     filterType : {0}, sharpness : {2}, noiseShaping : {40}]

\* The arguments of WebPSave: every pixel buffer with plain parameters, and
\* every parameter bundle with a small pixel buffer.
SaveInputs ==
    [allocator : {NULL, "alloc"}, bitmap : Bitmaps, params : {PlainParams},
     callback : {NULL, "progress"}]
    \cup
    [allocator : {NULL, "alloc"}, bitmap : SmallBitmaps, params : AllParams,
     callback : {NULL, "progress"}]

SaveEnvs ==
    [pictureInit : BOOLEAN, importOk : BOOLEAN,
     encodeErr : {VP8_ENC_OK, VP8_ENC_ERROR_OUT_OF_MEMORY, VP8_ENC_ERROR_FILE_TOO_BIG},
     mem : { Ramp(82, n) : n \in 1..MaxEncodedSize }, allocOk : BOOLEAN]

Payloads == { Ramp(1, n) : n \in 0..MaxBlobLen }
Tags == {"ICCP", "EXIF", "XMP "}
ChunkSet == { Chunk(t, b) : t \in Tags, b \in Payloads }
ChunkLists ==
    {<<>>} \cup { <<c>> : c \in ChunkSet } \cup { <<c, d>> : c \in ChunkSet, d \in ChunkSet }

Containers ==
    [form : {"webp", "corrupt"}, flags : SUBSET FormatFlags, chunks : ChunkLists,
     imageSize : {6}]

OutSizes == 0..(MaxBlobLen + 1)
CallerBuffer(n) == [i \in 1..n |-> 7]

GetInputs == [data : Containers, type : MetaDataTypes]

ExtractInputs ==
    { [data |-> c, outData |-> CallerBuffer(n), outSize |-> n, type |-> t] :
        c \in Containers, n \in OutSizes, t \in MetaDataTypes }

ExtractEnvs ==
    [tail : { [i \in 1..(MaxBlobLen + 1) |-> b] : b \in {0, 9} },
     handlerReturns : BOOLEAN]

Blobs == { Ramp(f, n) : f \in {1, 2}, n \in 1..MaxBlobLen }

\* A blob of a metadata bundle: its pointer and its size.
BlobArgs ==
    { <<NullPtr, 0>>, <<NullPtr, 1>>, <<Ptr(<<1>>), 0>> }
    \cup { <<Ptr(b), Len(b)>> : b \in Blobs }

MetaDataParams ==
    { [iccProfile |-> i[1], iccProfileSize |-> i[2], exif |-> e[1], exifSize |-> e[2],
       xmp |-> x[1], xmpSize |-> x[2]] : i \in BlobArgs, e \in BlobArgs, x \in BlobArgs }

Images ==
    { [form |-> "null", flags |-> {}, chunks |-> <<>>, imageSize |-> 0],
      [form |-> "corrupt", flags |-> {}, chunks |-> <<>>, imageSize |-> 5],
      [form |-> "bitstream", flags |-> {}, chunks |-> <<>>, imageSize |-> 6],
      [form |-> "webp", flags |-> {"EXIF_FLAG", "XMP_FLAG"},
       chunks |-> <<Chunk("EXIF", <<9>>), Chunk("XMP ", <<9, 9>>)>>, imageSize |-> 7] }

SetInputs == [image : Images, allocator : {NULL, "alloc"}, metaData : MetaDataParams]

SetEnvs == [fail : MuxFailPoints, allocOk : BOOLEAN]

(***************************************************************************)
(* The state machine: a call is drawn, the entry point runs and returns.   *)
(* The container a successful SetMetaData call returned may then be passed *)
(* to GetMetaDataSize or ExtractMetaData.                                  *)
(***************************************************************************)
Init ==
    /\ pc = "call"
    /\ out = Blank
    /\ injected = <<>>
    /\ \/ op = "WebPSave" /\ inp \in SaveInputs
       \/ op = "GetMetaDataSize" /\ inp \in GetInputs
       \/ op = "ExtractMetaData" /\ inp \in ExtractInputs
       \/ op = "SetMetaData" /\ inp \in SetInputs

Return(r) ==
    /\ pc' = "returned"
    /\ out' = r
    /\ UNCHANGED <<op, inp, injected>>

CallWebPSave ==
    /\ pc = "call" /\ op = "WebPSave"
    /\ \E env \in SaveEnvs : Return(WebPSave(inp, env))

CallGetMetaDataSize ==
    /\ pc = "call" /\ op = "GetMetaDataSize"
    /\ Return(GetMetaDataSize(inp.data, inp.type))

CallExtractMetaData ==
    /\ pc = "call" /\ op = "ExtractMetaData"
    /\ \E env \in ExtractEnvs :
          Return(ExtractMetaData(inp.data, inp.outData, inp.outSize, inp.type, env))

CallSetMetaData ==
    /\ pc = "call" /\ op = "SetMetaData"
    /\ \E env \in SetEnvs :
          Return(SetMetaData(inp.image, inp.allocator, inp.metaData, env))

\* The host passes the container SetMetaData returned to a metadata query.
QueryResult ==
    /\ pc = "returned" /\ op = "SetMetaData"
    /\ out.ret = WEBP_MUX_OK /\ out.outPtr = Buffer
    /\ pc' = "call"
    /\ out' = Blank
    /\ injected' = <<inp.metaData>>
    /\ \/ /\ op' = "GetMetaDataSize"
          /\ \E t \in MetaDataTypes : inp' = [data |-> out.outBuf[1], type |-> t]
       \/ /\ op' = "ExtractMetaData"
          /\ \E t \in MetaDataTypes, n \in OutSizes :
                inp' = [data |-> out.outBuf[1], outData |-> CallerBuffer(n),
                        outSize |-> n, type |-> t]

Next ==
    \/ CallWebPSave
    \/ CallGetMetaDataSize
    \/ CallExtractMetaData
    \/ CallSetMetaData
    \/ QueryResult

Spec == Init /\ [][Next]_vars

(***************************************************************************)
(* Properties.                                                             *)
(***************************************************************************)
Returned(name) == pc = "returned" /\ op = name

\* The flag and the chunk identifier the container format gives each kind.
KindFlag(type) ==
    CASE type = "ColorProfile" -> "ICCP_FLAG" [] type = "EXIF" -> "EXIF_FLAG"
      [] type = "XMP" -> "XMP_FLAG"
KindTag(type) ==
    CASE type = "ColorProfile" -> "ICCP" [] type = "EXIF" -> "EXIF"
      [] type = "XMP" -> "XMP "

\* The positions of the chunks of a kind in a container.
KindChunks(data, type) ==
    { i \in 1..Len(data.chunks) : data.chunks[i].tag = KindTag(type) }

\* The kind is absent: the container does not open, or its flag is not
\* set, or it holds no chunk of the kind.
Absent(data, type) ==
    \/ data.form # "webp"
    \/ KindFlag(type) \notin data.flags
    \/ KindChunks(data, type) = {}

FirstPayload(data, type) ==
    LET first == CHOOSE i \in KindChunks(data, type) :
                     \A j \in KindChunks(data, type) : i <= j
    IN  data.chunks[first].bytes

\* The blob of a kind in a metadata bundle: its size and its bytes.
BundleSize(m, type) ==
    CASE type = "ColorProfile" -> m.iccProfileSize [] type = "EXIF" -> m.exifSize
      [] type = "XMP" -> m.xmpSize
BundleBytes(m, type) ==
    CASE type = "ColorProfile" -> m.iccProfile.bytes [] type = "EXIF" -> m.exif.bytes
      [] type = "XMP" -> m.xmp.bytes

\* C1: whenever SetMetaData returns after WebPMuxNew gave it a mux, the mux
\* was released with WebPMuxDelete.
C1_MuxReleasedOnEveryPath ==
    (Returned("SetMetaData") /\ "mux" \in out.acquired) => "mux" \in out.released

\* C2: whenever WebPSave returns after the picture and the memory writer
\* were initialised, both WebPMemoryWriterClear and WebPPictureFree ran.
C2_SaveReleasesOnEveryPath ==
    (Returned("WebPSave") /\ {"pic", "wrt"} \subseteq out.acquired)
        => {"wrt", "pic"} \subseteq out.released

\* C3: a call of WebPSave or SetMetaData with a null allocator returns the
\* null-parameter code, which is not the success code, having acquired no
\* codec object, never called the allocator and left the output pointer
\* unwritten.
C3_NullAllocatorFailsFast ==
    /\ (Returned("WebPSave") /\ inp.allocator = NULL)
          => /\ out.ret = VP8_ENC_ERROR_NULL_PARAMETER
             /\ out.ret # VP8_ENC_OK
             /\ out.acquired = {} /\ out.allocLog = <<>> /\ out.outPtr = Unwritten
    /\ (Returned("SetMetaData") /\ inp.allocator = NULL)
          => /\ out.ret = WEBP_MUX_INVALID_ARGUMENT
             /\ out.ret # WEBP_MUX_OK
             /\ out.acquired = {} /\ out.allocLog = <<>> /\ out.outPtr = Unwritten

C3_Witness ==
    /\ Returned("WebPSave") /\ inp.allocator = NULL
    /\ inp.bitmap.width = 2 /\ inp.bitmap.height = 2
    /\ out.ret = VP8_ENC_ERROR_NULL_PARAMETER

\* The allocator was called and returned null.
AllocatorReturnedNull ==
    out.allocLog # <<>> /\ out.allocLog[Len(out.allocLog)].returned = NULL

\* C4: when the codec step succeeded and the allocator, asked for exactly
\* the produced size, returned null, the call returns the out-of-memory
\* code (never 0, never the success code), issues no copy, and has released
\* the produced data and the codec objects.
C4_AllocatorFailureIsOutOfMemory ==
    /\ (Returned("WebPSave") /\ out.codec = <<VP8_ENC_OK>> /\ AllocatorReturnedNull)
          => /\ out.ret = VP8_ENC_ERROR_OUT_OF_MEMORY
             /\ out.ret # 0
             /\ out.allocLog = <<[size |-> out.produced[1], returned |-> NULL]>>
             /\ out.copyLog = <<>> /\ out.outBuf = <<>>
             /\ {"wrt", "pic"} \subseteq out.released
    /\ (Returned("SetMetaData") /\ out.codec = <<WEBP_MUX_OK>> /\ AllocatorReturnedNull)
          => /\ out.ret = WEBP_MUX_MEMORY_ERROR
             /\ out.ret # 0 /\ out.ret # WEBP_MUX_OK
             /\ out.allocLog = <<[size |-> out.produced[1], returned |-> NULL]>>
             /\ out.copyLog = <<>> /\ out.outBuf = <<>>
             /\ {"mux", "assembled"} \subseteq out.released

C4_Witness ==
    /\ Returned("SetMetaData") /\ out.codec = <<WEBP_MUX_OK>> /\ AllocatorReturnedNull
    /\ inp.metaData.exifSize = 2
    /\ out.ret = WEBP_MUX_MEMORY_ERROR

\* C5: when the requested kind is absent, ExtractMetaData issues no copy and
\* leaves the caller's buffer as it was.
C5_AbsentKindIsNoOp ==
    (Returned("ExtractMetaData") /\ Absent(inp.data, inp.type))
        => out.copyLog = <<>> /\ out.outData = inp.outData

\* C6: GetMetaDataSize always writes *outSize and reports no error: 0 when
\* the kind is absent, else the payload length of the first chunk of the
\* kind; and it released every demux object it obtained.
C6_SizeOfFirstChunk ==
    Returned("GetMetaDataSize")
        => /\ out.outSize = <<IF Absent(inp.data, inp.type) THEN 0
                                ELSE Len(FirstPayload(inp.data, inp.type))>>
           /\ out.ret = "void" /\ ~out.aborted
           /\ out.acquired \subseteq out.released

C6_Witness ==
    /\ Returned("GetMetaDataSize") /\ inp.type = "XMP"
    /\ inp.data.form = "webp" /\ inp.data.flags = {"XMP_FLAG"}
    /\ inp.data.chunks = <<Chunk("XMP ", <<1, 2>>), Chunk("XMP ", <<1>>)>>
    /\ out.outSize = <<2>>

\* C7: on the container a successful SetMetaData call returned, for a kind
\* given a non-empty blob GetMetaDataSize yields the blob's size and
\* ExtractMetaData with that capacity yields the blob's bytes; for a kind of
\* size zero in the bundle GetMetaDataSize yields 0.
C7_MetaDataRoundTrip ==
    (pc = "returned" /\ injected # <<>>)
        => LET size  == BundleSize(injected[1], inp.type)
               bytes == BundleBytes(injected[1], inp.type)
           IN  /\ op = "GetMetaDataSize" => out.outSize = <<size>>
               /\ (op = "ExtractMetaData" /\ size > 0 /\ inp.outSize = size)
                     => out.outData = SubSeq(bytes, 1, size)

C7_Witness ==
    /\ Returned("ExtractMetaData") /\ injected # <<>>
    /\ inp.type = "XMP" /\ injected[1].xmp.bytes = <<2, 3>>
    /\ injected[1].exifSize = 0 /\ injected[1].iccProfileSize = 1
    /\ inp.outSize = 2 /\ out.outData = <<2, 3>>

\* The offsets of the alpha bytes of the pixels of a pixel buffer.
AlphaOffsets(b) ==
    { y * b.stride + 4 * x + 3 : x \in 0..(b.width - 1), y \in 0..(b.height - 1) }

\* C8: WebPSave uses the alpha-preserving import exactly when some pixel
\* (x, y) inside the image has an alpha byte, at offset y*stride + 4*x + 3,
\* below 255, otherwise the alpha-ignoring import; the scan reads nothing
\* but alpha bytes of pixels.
C8_ImportFollowsAlpha ==
    (Returned("WebPSave") /\ out.importer # None)
        => /\ out.importer \in {"BGRA", "BGRX"}
           /\ out.importer = "BGRA"
                 <=> \E o \in AlphaOffsets(inp.bitmap) : ByteAt(inp.bitmap.data, o) < 255
           /\ out.reads \subseteq AlphaOffsets(inp.bitmap)

\* An opaque image with padded rows whose colour and padding bytes are 0.
C8_Witness ==
    /\ Returned("WebPSave") /\ out.importer = "BGRX"
    /\ inp.bitmap.width = 2 /\ inp.bitmap.height = 2 /\ inp.bitmap.stride = 12
    /\ ByteAt(inp.bitmap.data, 8) = 0 /\ ByteAt(inp.bitmap.data, 11) = 0
    /\ out.reads = {3, 7, 15, 19}

\* A lossy encode that got as far as handing its configuration to WebPEncode.
LossyTuned == Returned("WebPSave") /\ out.cfg # <<>> /\ inp.params.quality # 100

OtherTuningApplied ==
    /\ out.cfg[1].filter_type = inp.params.filterType
    /\ out.cfg[1].filter_sharpness = inp.params.sharpness
    /\ out.cfg[1].sns_strength = inp.params.noiseShaping

\* C9 as stated: a lossy encode takes the caller's filter strength for
\* every preset but icon, keeps the preset's own for icon, and takes filter
\* type, sharpness and noise shaping for every preset.
C9_AllButIconHonoured ==
    LossyTuned
        => /\ inp.params.preset \in Presets \ {WEBP_PRESET_ICON}
                 => out.cfg[1].filter_strength = inp.params.filterStrength
           /\ inp.params.preset = WEBP_PRESET_ICON
                 => out.cfg[1].filter_strength
                      = PresetConfig(inp.params.preset, inp.params.quality).filter_strength
           /\ OtherTuningApplied

\* C9 as amended: a lossy encode takes the caller's filter strength for the
\* presets default, picture, photo and drawing, keeps the preset's own for
\* icon and text, and takes filter type, sharpness and noise shaping for
\* every preset.
C9_BelowIconHonoured ==
    LossyTuned
        => /\ inp.params.preset \in {WEBP_PRESET_DEFAULT, WEBP_PRESET_PICTURE,
                                      WEBP_PRESET_PHOTO, WEBP_PRESET_DRAWING}
                 => out.cfg[1].filter_strength = inp.params.filterStrength
           /\ inp.params.preset \in {WEBP_PRESET_ICON, WEBP_PRESET_TEXT}
                 => out.cfg[1].filter_strength
                      = PresetConfig(inp.params.preset, inp.params.quality).filter_strength
           /\ OtherTuningApplied

C9_Witness ==
    /\ LossyTuned /\ inp.params.preset = WEBP_PRESET_TEXT
    /\ inp.params.filterStrength = 50
    /\ out.cfg[1].filter_strength = 0 /\ out.cfg[1].filter_type = 0

\* C10: when WebPEncode fails, WebPSave returns the picture's error code
\* unchanged without calling the allocator or writing *output; the
\* allocator is called at most once, only after WebPEncode succeeded, with
\* exactly the size the memory writer holds.
C10_EncodeFailurePropagates ==
    Returned("WebPSave")
        => /\ (out.codec # <<>> /\ out.codec # <<VP8_ENC_OK>>)
                 => /\ out.ret = out.codec[1]
                    /\ out.allocLog = <<>> /\ out.outPtr = Unwritten
           /\ Len(out.allocLog) <= 1
           /\ out.allocLog # <<>>
                 => /\ out.codec = <<VP8_ENC_OK>>
                    /\ out.allocLog[1].size = out.produced[1]

C10_Witness ==
    /\ Returned("WebPSave") /\ out.codec = <<VP8_ENC_ERROR_FILE_TOO_BIG>>
    /\ out.ret = VP8_ENC_ERROR_FILE_TOO_BIG
    /\ out.importer = "BGRA" /\ out.released = {"wrt", "pic"}

====
